---- MODULE Spec2Model ----
(***************************************************************************)
(* Knowledge-base application: the chunk editor (useFileChunks), the file  *)
(* registry and upload coordinator (useKnowledgeFiles, UploadDialog), and  *)
(* the two edge functions (process-knowledge-file and its callback).       *)
(*                                                                         *)
(* Conventions.                                                            *)
(*  - A text is a sequence of one-character strings.                       *)
(*  - chunk_index is a numeric column; the code only ever writes integers  *)
(*    (ingestion) and integer + 0.5 (split), so every key is a multiple of *)
(*    one half.  The model stores keys in units of one half: ingestion     *)
(*    index i is IndexUnit * i, and "+ 0.5" is "+ HalfStep".               *)
(*  - A datastore, storage or webhook request can fail; each action draws  *)
(*    the outcome of each of its requests from BOOLEAN.                    *)
(***************************************************************************)
EXTENDS Integers, Sequences, FiniteSets, TLC

VARIABLES
    knowledge_files,   \* table knowledge_files: id -> row
    nextFileId,        \* next uuid of knowledge_files
    file_chunks,       \* table file_chunks: id -> row
    nextChunkId,       \* next uuid of file_chunks
    chunks,            \* useFileChunks: the cached query result ['file-chunks', fileId]
    invalidated,       \* the cached query result was invalidated and not yet re-fetched
    opCount,           \* number of chunk-editor calls made so far
    lastCall,          \* the last handler call: its arguments, what it read, what it reported
    storage,           \* bucket 'knowledge-files': the paths that hold a blob
    batch,             \* UploadDialog: the files handed to handleFileUpload, and its progress
    uploads,           \* per file of the batch: the uploadFile mutation (uploadFileAsync)
    procs,             \* per file of the batch: processFileAsync
    uploadingFiles,    \* UploadDialog state: per file of the batch, the status shown
    requests,          \* updateFile mutations started and not yet answered by the datastore
    webhookLog,        \* invocations of document processing: file and its status at that time
    reachedTerminal,   \* ids of the files seen with status completed or failed
    views              \* per open client: the cached files query and its subscription

chunkVars == <<file_chunks, nextChunkId, chunks, invalidated, opCount, lastCall>>
dialogVars == <<storage, batch, uploads, procs, uploadingFiles, requests, webhookLog>>
fileVars == <<knowledge_files, nextFileId, reachedTerminal, storage, batch, uploads, procs,
              uploadingFiles, requests, webhookLog>>
vars == <<knowledge_files, nextFileId, file_chunks, nextChunkId, chunks, invalidated,
          opCount, lastCall, storage, batch, uploads, procs, uploadingFiles, requests,
          webhookLog, reachedTerminal, views>>

----------------------------------------------------------------------------
(* Bounds *)

MaxChunkRows == 5      \* file_chunks ids ever allocated
MaxOps == 2            \* chunk-editor calls
MaxPayloadChunks == 3  \* chunk payloads in one callback
MaxSplitPoint == 3     \* largest split offset tried

(* Program constants, in units of one half *)
IndexUnit == 2         \* chunk_index: index  (1.0)
HalfStep == 1          \* chunk.chunk_index + 0.5

NoTitle == ""
\* file_path is null
NoPath == [dir |-> "", id |-> 0, ext |-> ""]

----------------------------------------------------------------------------
(* Text helpers *)

Min(a, b) == IF a < b THEN a ELSE b
Max(a, b) == IF a > b THEN a ELSE b

\* String.prototype.substring(start, end): both arguments clamped to [0, length]
Substring(s, start, end) ==
    LET a == Max(0, Min(start, Len(s)))
        b == Max(0, Min(end, Len(s)))
    IN  SubSeq(s, Min(a, b) + 1, Max(a, b))

\* String.prototype.substring(start): to the end of the string
SubstringFrom(s, start) == Substring(s, start, Len(s))

Separator == <<"\n", "\n">>

\* Array.prototype.join(sep) over a sequence of texts
RECURSIVE Join(_, _)
Join(texts, sep) ==
    IF texts = <<>> THEN <<>>
    ELSE IF Len(texts) = 1 THEN texts[1]
    ELSE texts[1] \o sep \o Join(Tail(texts), sep)

\* chunks.filter(c => chunkIds.includes(c.id)): the rows whose id is in ids, in order
RECURSIVE FilterIds(_, _)
FilterIds(s, ids) ==
    IF s = <<>> THEN <<>>
    ELSE IF s[1].id \in ids THEN <<s[1]>> \o FilterIds(Tail(s), ids)
    ELSE FilterIds(Tail(s), ids)

\* insertion of x into an ascending sequence, after every element not greater (stable)
RECURSIVE InsertByIndex(_, _)
InsertByIndex(s, x) ==
    IF s = <<>> THEN <<x>>
    ELSE IF x.chunk_index < s[1].chunk_index THEN <<x>> \o s
    ELSE <<s[1]>> \o InsertByIndex(Tail(s), x)

\* Array.prototype.sort((a, b) => a.chunk_index - b.chunk_index): stable, ascending
RECURSIVE SortByIndex(_)
SortByIndex(s) ==
    IF s = <<>> THEN <<>>
    ELSE InsertByIndex(SortByIndex(SubSeq(s, 1, Len(s) - 1)), s[Len(s)])

\* Array.prototype.slice(1)
Slice1(s) == IF s = <<>> THEN <<>> ELSE Tail(s)

Range(s) == {s[i] : i \in 1..Len(s)}

\* Array.prototype.find(c => c.id === id): the first match
HasId(s, id) == \E i \in 1..Len(s) : s[i].id = id
Find(s, id) == s[CHOOSE i \in 1..Len(s) : s[i].id = id /\ \A j \in 1..(i-1) : s[j].id # id]

\* a save that keeps the text as typed
Untrimmed(s) == s

\* String.prototype.trim(): leading and trailing blanks and line breaks removed
IsBlank(c) == c \in {" ", "\n"}
RECURSIVE TrimStart(_)
TrimStart(s) == IF s # <<>> /\ IsBlank(s[1]) THEN TrimStart(Tail(s)) ELSE s
RECURSIVE TrimEnd(_)
TrimEnd(s) == IF s # <<>> /\ IsBlank(s[Len(s)]) THEN TrimEnd(SubSeq(s, 1, Len(s) - 1)) ELSE s
Trim(s) == TrimEnd(TrimStart(s))

----------------------------------------------------------------------------
(* Datastore helpers: tables are functions from id to row *)

\* id of the file whose details dialog is open: useFileChunks(file.id)
fileId == 1

\* updated_at of a row counts how often it was advanced: DEFAULT now() on insert
CreatedAt == 0

\* a chunk row as the table stores it: the columns sent plus the defaults
StoredChunk(row) ==
    [file_id |-> row.file_id, content |-> row.content, chunk_index |-> row.chunk_index,
     updated_at |-> CreatedAt]

\* an update that the datastore answers without writing
KeptContent(table, ids, content) == table

\* .from(t).update({content}).eq('id', id) / .in('id', ids): rows that do not exist are
\* skipped; the trigger update_file_chunks_updated_at advances updated_at of each row
UpdateContent(table, ids, content) ==
    [i \in DOMAIN table |->
        IF i \in ids THEN [table[i] EXCEPT !.content = content, !.updated_at = @ + 1]
        ELSE table[i]]

\* .from(t).delete().in('id', ids)
DeleteRows(table, ids) == [i \in DOMAIN table \ ids |-> table[i]]

\* .from(t).insert(row) with a generated uuid
InsertRow(table, id, row) == [i \in DOMAIN table \cup {id} |-> IF i = id THEN row ELSE table[i]]

\* a row of file_chunks as the client receives it from select('*')
ClientRow(id) ==
    [id |-> id, file_id |-> file_chunks[id].file_id, content |-> file_chunks[id].content,
     chunk_index |-> file_chunks[id].chunk_index, updated_at |-> file_chunks[id].updated_at]

\* the ids of the rows of file f
ChunkIdsOf(table, f) == {i \in DOMAIN table : table[i].file_id = f}

\* auth.uid() of the requests the client sends: the signed-in user
Owner == "A"

\* the rows of knowledge_files the policies let the signed-in user read, update and
\* delete: USING (user_id = auth.uid())
OwnFiles(fileTable) == {f \in DOMAIN fileTable : fileTable[f].user_id = Owner}

\* the rows of file_chunks the policies let the signed-in user read, update and delete:
\* USING (EXISTS (SELECT 1 FROM knowledge_files WHERE id = file_id AND user_id = auth.uid()))
OwnChunks(chunkTable, fileTable) ==
    {i \in DOMAIN chunkTable : chunkTable[i].file_id \in OwnFiles(fileTable)}

\* .eq('file_id', fileId).order('chunk_index', {ascending: true}): every order of the rows
\* of the file that is ascending in chunk_index (rows of equal key come in any order)
OrderedSelects(f) ==
    LET ids == ChunkIdsOf(file_chunks, f) \cap OwnChunks(file_chunks, knowledge_files)
        n == Cardinality(ids)
    IN  {[i \in 1..n |-> ClientRow(p[i])] :
            p \in {q \in [1..n -> ids] :
                     /\ \A i, j \in 1..n : i # j => q[i] # q[j]
                     /\ \A i, j \in 1..n :
                          i < j => file_chunks[q[i]].chunk_index <= file_chunks[q[j]].chunk_index}}

\* what the last handler call was given, read and reported
Call(op, ok, ids, point, inserted, status, faults) ==
    [op |-> op, ok |-> ok, ids |-> ids, point |-> point, inserted |-> inserted,
     status |-> status, faults |-> faults]

NoCall == Call("none", FALSE, <<>>, 0, {}, 0, {})

\* no client has the file list open
NoViews == <<>>

\* the requests of a call that the datastore failed
Faults(firstOk, firstName, secondOk, secondName) ==
    (IF firstOk THEN {} ELSE {firstName}) \cup (IF secondOk THEN {} ELSE {secondName})

----------------------------------------------------------------------------
(* useFileChunks: the chunk editor *)

\* queryFn of ['file-chunks', fileId], run on mount, on focus and after an invalidation
Refetch ==
    /\ \E rows \in OrderedSelects(fileId) : chunks' = rows
    /\ invalidated' = FALSE
    /\ UNCHANGED <<file_chunks, nextChunkId, opCount, lastCall>>
    /\ UNCHANGED fileVars

\* texts the user may type into the edit box
EditTexts == {<<"X">>, <<" ", "Y">>, <<" ">>, <<>>}

\* handleSaveChunk followed by updateChunk.mutationFn and onSuccess
UpdateChunk(chunkId, editContent, ok) ==
    /\ opCount < MaxOps
    /\ Trim(editContent) # <<>>
    /\ opCount' = opCount + 1
    /\ LET content == Trim(editContent)
           found == ok /\ chunkId \in OwnChunks(file_chunks, knowledge_files)
       IN  /\ file_chunks' = IF found THEN UpdateContent(file_chunks, {chunkId}, content)
                             ELSE file_chunks
           /\ invalidated' = (invalidated \/ found)
           /\ lastCall' = Call("update", found, <<chunkId>>, 0, {}, 0,
                               Faults(ok, "update", TRUE, ""))
    /\ UNCHANGED <<nextChunkId, chunks>>
    /\ UNCHANGED fileVars

\* confirmDeleteChunk followed by deleteChunk.mutationFn and onSuccess
DeleteChunk(chunkId, ok) ==
    /\ opCount < MaxOps
    /\ opCount' = opCount + 1
    /\ file_chunks' = IF ok THEN DeleteRows(file_chunks, {chunkId} \cap
                                                         OwnChunks(file_chunks, knowledge_files))
                       ELSE file_chunks
    /\ invalidated' = (invalidated \/ ok)
    /\ lastCall' = Call("delete", ok, <<chunkId>>, 0, {}, 0, Faults(ok, "delete", TRUE, ""))
    /\ UNCHANGED <<nextChunkId, chunks>>
    /\ UNCHANGED fileVars

\* splitChunk.mutationFn and onSuccess
SplitChunk(chunkId, splitPoint, updOk, insOk) ==
    /\ opCount < MaxOps
    /\ opCount' = opCount + 1
    /\ IF ~HasId(chunks, chunkId)
       THEN \* throw new Error('Chunk not found')
            /\ lastCall' = Call("split", FALSE, <<chunkId>>, splitPoint, {}, 0, {})
            /\ UNCHANGED <<file_chunks, nextChunkId, invalidated>>
       ELSE LET chunk == Find(chunks, chunkId)
                content1 == Substring(chunk.content, 0, splitPoint)
                content2 == SubstringFrom(chunk.content, splitPoint)
                own == OwnChunks(file_chunks, knowledge_files)
                updated == IF updOk THEN UpdateContent(file_chunks, {chunkId} \cap own, content1)
                           ELSE file_chunks
                inserts == insOk /\ chunk.file_id \in OwnFiles(knowledge_files)
                row == [file_id |-> chunk.file_id, content |-> content2,
                        chunk_index |-> chunk.chunk_index + HalfStep]
            IN  /\ file_chunks' = IF inserts THEN InsertRow(updated, nextChunkId, StoredChunk(row))
                                  ELSE updated
                /\ nextChunkId' = IF inserts THEN nextChunkId + 1 ELSE nextChunkId
                /\ invalidated' = (invalidated \/ inserts)
                /\ lastCall' = Call("split", inserts, <<chunkId>>, splitPoint,
                                    IF inserts THEN {nextChunkId} ELSE {}, 0,
                                    Faults(updOk, "update", insOk, "insert"))
    /\ UNCHANGED chunks
    /\ UNCHANGED fileVars

\* mergeChunks.mutationFn and onSuccess
MergeChunks(chunkIds, updOk, delOk) ==
    /\ opCount < MaxOps
    /\ opCount' = opCount + 1
    /\ LET chunksToMerge == SortByIndex(FilterIds(chunks, Range(chunkIds)))
       IN  IF Len(chunkIds) < 2 \/ Len(chunksToMerge) < 2
           THEN \* throw new Error('Need at least 2 chunks to merge' / 'Chunks not found')
                /\ lastCall' = Call("merge", FALSE, chunkIds, 0, {}, 0, {})
                /\ UNCHANGED <<file_chunks, invalidated>>
           ELSE LET mergedContent ==
                        Join([i \in 1..Len(chunksToMerge) |-> chunksToMerge[i].content], Separator)
                    firstChunk == chunksToMerge[1]
                    own == OwnChunks(file_chunks, knowledge_files)
                    updated == IF updOk
                               THEN UpdateContent(file_chunks, {firstChunk.id} \cap own,
                                                  mergedContent)
                               ELSE file_chunks
                IN  /\ file_chunks' = IF delOk
                                      THEN DeleteRows(updated, Range(Slice1(chunkIds)) \cap own)
                                      ELSE updated
                    /\ invalidated' = (invalidated \/ delOk)
                    /\ lastCall' = Call("merge", delOk, chunkIds, 0, {}, 0,
                                        Faults(updOk, "update", delOk, "delete"))
    /\ UNCHANGED <<nextChunkId, chunks>>
    /\ UNCHANGED fileVars

----------------------------------------------------------------------------
(* process-knowledge-file-callback: the processing callback handler *)

\* contents a chunk payload may carry
PayloadContents == {<<"A", "B", "C">>, <<"D">>, <<>>}

\* the text stored for a payload whose content is falsy: the payload object itself
ChunkObjectText == <<"{", "}">>

\* chunk.content || chunk
StoredContent(chunk) == IF chunk.content # <<>> THEN chunk.content ELSE ChunkObjectText

RECURSIVE SeqsUpTo(_, _)
SeqsUpTo(S, n) ==
    IF n = 0 THEN {<<>>}
    ELSE LET shorter == SeqsUpTo(S, n - 1)
         IN  shorter \cup {Append(q, x) : q \in {r \in shorter : Len(r) = n - 1}, x \in S}

PayloadChunkLists == SeqsUpTo([content : PayloadContents], MaxPayloadChunks)

\* chunks.map((chunk, index) => ({file_id, content, chunk_index: index, metadata}))
ChunkData(file_id, payloadChunks) ==
    [i \in 1..Len(payloadChunks) |->
        [file_id |-> file_id, content |-> StoredContent(payloadChunks[i]),
         chunk_index |-> IndexUnit * (i - 1)]]

\* an insert under a unique (file_id, chunk_index) key: refused when a row of the
\* statement meets a stored row on the key
InsertRowsUnique(table, firstId, rows) ==
    IF \E i \in DOMAIN table, k \in DOMAIN rows :
           table[i].file_id = rows[k].file_id /\ table[i].chunk_index = rows[k].chunk_index
    THEN table
    ELSE [i \in DOMAIN table \cup {firstId + k - 1 : k \in 1..Len(rows)} |->
             IF i \in DOMAIN table THEN table[i] ELSE StoredChunk(rows[i - firstId + 1])]

\* .from('file_chunks').insert(chunkData): one statement, ids generated in order
InsertRows(table, firstId, rows) ==
    [i \in DOMAIN table \cup {firstId + k - 1 : k \in 1..Len(rows)} |->
        IF i \in DOMAIN table THEN table[i] ELSE StoredChunk(rows[i - firstId + 1])]

\* a file update that is undone: the table as it was
RolledBackFileRow(table, id, status, title) == table

\* .from('knowledge_files').update(updateData).eq('id', file_id)
UpdateFileRow(table, id, status, title) ==
    [f \in DOMAIN table |->
        IF f = id
        THEN [table[f] EXCEPT !.processing_status = status,
                              !.title = IF title # NoTitle THEN title ELSE @]
        ELSE table[f]]

\* the other terminal status, written where the attempt is to be marked as failed
MistakenStatus == "completed"

FailedStatus == "failed"
CompletedStatus == "completed"

\* the files of a table whose processing attempt has ended
TerminalFiles(table) ==
    {f \in DOMAIN table : table[f].processing_status \in {CompletedStatus, FailedStatus}}

\* serve(): one callback request; has_file_id is FALSE when the body carries no file_id
Callback(has_file_id, file_id, failed, title, payloadChunks, updOk, insOk) ==
    /\ opCount < MaxOps
    /\ opCount' = opCount + 1
    /\ nextChunkId + Len(payloadChunks) - 1 <= MaxChunkRows
    /\ IF ~has_file_id
       THEN /\ lastCall' = Call("callback", FALSE, <<>>, 0, {}, 400, {})
            /\ UNCHANGED <<knowledge_files, file_chunks, nextChunkId>>
       ELSE IF failed
       THEN /\ knowledge_files' = IF updOk
                                  THEN UpdateFileRow(knowledge_files, file_id, FailedStatus, NoTitle)
                                  ELSE knowledge_files
            /\ lastCall' = Call("callback", TRUE, <<file_id>>, 0, {}, 200,
                                Faults(updOk, "update", TRUE, ""))
            /\ UNCHANGED <<file_chunks, nextChunkId>>
       ELSE IF ~updOk
       THEN /\ lastCall' = Call("callback", FALSE, <<file_id>>, 0, {}, 500, {"update"})
            /\ UNCHANGED <<knowledge_files, file_chunks, nextChunkId>>
       ELSE LET inserts == /\ Len(payloadChunks) > 0
                           /\ insOk
                           /\ file_id \in DOMAIN knowledge_files
                rows == ChunkData(file_id, payloadChunks)
            IN  /\ knowledge_files' =
                       UpdateFileRow(knowledge_files, file_id, CompletedStatus, title)
                /\ file_chunks' = IF inserts THEN InsertRows(file_chunks, nextChunkId, rows)
                                  ELSE file_chunks
                /\ nextChunkId' = IF inserts THEN nextChunkId + Len(rows) ELSE nextChunkId
                /\ lastCall' = Call("callback", TRUE, <<file_id>>, 0,
                                    IF inserts
                                    THEN {nextChunkId + k - 1 : k \in 1..Len(rows)} ELSE {},
                                    200,
                                    Faults(TRUE, "", insOk \/ Len(payloadChunks) = 0, "insert"))
    /\ reachedTerminal' = reachedTerminal \cup TerminalFiles(knowledge_files')
    /\ UNCHANGED <<nextFileId, chunks, invalidated>>
    /\ UNCHANGED dialogVars

\* titles a callback may carry
CallbackTitles == {NoTitle, "Report"}

----------------------------------------------------------------------------
(* The chunk editor on one uploaded file *)

\* no batch was handed to the upload dialog yet
NoBatch ==
    [variant |-> "none", files |-> <<>>, phase |-> "idle", index |-> 0, timer |-> "none",
     toasts |-> <<>>]

\* the file as uploadFile leaves it: record created, blob stored, processing started
UploadedFile(id, name, ext) ==
    [user_id |-> Owner, title |-> name, file_path |-> [dir |-> Owner, id |-> id, ext |-> ext],
     processing_status |-> "processing"]

\* the extracted text of the document, chunk by chunk
Letters == <<"A", "B", "C", "D", "E", "F", "G", "H", "I", "J">>
DocChunk(i) == [content |-> <<Letters[2 * i - 1], Letters[2 * i]>>]
Document(n) == [i \in 1..n |-> DocChunk(i)]

\* the state after uploadFile and one success callback carrying the first n chunks of the
\* document, with the details dialog open on the file and its chunks fetched
InitChunks ==
    \E n \in 1..MaxPayloadChunks :
        /\ knowledge_files =
               UpdateFileRow([f \in {fileId} |-> UploadedFile(fileId, "report.pdf", "pdf")],
                             fileId, CompletedStatus, NoTitle)
        /\ nextFileId = fileId + 1
        /\ file_chunks = InsertRows(<<>>, 1, ChunkData(fileId, Document(n)))
        /\ nextChunkId = n + 1
        /\ chunks = [i \in 1..n |->
                        [id |-> i, file_id |-> fileId, content |-> DocChunk(i).content,
                         chunk_index |-> IndexUnit * (i - 1), updated_at |-> CreatedAt]]
        /\ invalidated = FALSE
        /\ opCount = 0
        /\ lastCall = NoCall
        /\ storage = {[dir |-> Owner, id |-> fileId, ext |-> "pdf"]}
        /\ batch = NoBatch
        /\ uploads = <<>>
        /\ procs = <<>>
        /\ uploadingFiles = <<>>
        /\ requests = {}
        /\ webhookLog = {}
        /\ reachedTerminal = {fileId}
        /\ views = NoViews

AllChunkIds == 1..(nextChunkId - 1)

MaxMergeSet == 3

\* the ordered selections the user can tick: sequences of distinct chunk ids
Selections ==
    {q \in SeqsUpTo(AllChunkIds, MaxMergeSet) :
        Len(q) >= 1 /\ \A i, j \in 1..Len(q) : i # j => q[i] # q[j]}

UpdateChunkStep ==
    \E chunkId \in AllChunkIds, editContent \in EditTexts, ok \in BOOLEAN :
        UpdateChunk(chunkId, editContent, ok)

DeleteChunkStep == \E chunkId \in AllChunkIds, ok \in BOOLEAN : DeleteChunk(chunkId, ok)

SplitChunkStep ==
    \E chunkId \in AllChunkIds, splitPoint \in 0..MaxSplitPoint, updOk, insOk \in BOOLEAN :
        SplitChunk(chunkId, splitPoint, updOk, insOk)

MergeChunksStep ==
    \E chunkIds \in Selections, updOk, delOk \in BOOLEAN : MergeChunks(chunkIds, updOk, delOk)

NextChunks ==
    \/ Refetch /\ UNCHANGED views
    \/ UpdateChunkStep /\ UNCHANGED views
    \/ DeleteChunkStep /\ UNCHANGED views
    \/ SplitChunkStep /\ UNCHANGED views
    \/ MergeChunksStep /\ UNCHANGED views

SpecChunks == InitChunks /\ [][NextChunks]_vars

\* the edits that address one chunk by its id: the edit box and the delete button
NextChunkEdits ==
    \/ Refetch /\ UNCHANGED views
    \/ UpdateChunkStep /\ UNCHANGED views
    \/ DeleteChunkStep /\ UNCHANGED views

SpecChunkEdits == InitChunks /\ [][NextChunkEdits]_vars

\* merges of ticked chunks, one after another
NextChunkMerges ==
    \/ Refetch /\ UNCHANGED views
    \/ MergeChunksStep /\ UNCHANGED views

SpecChunkMerges == InitChunks /\ [][NextChunkMerges]_vars

----------------------------------------------------------------------------
(* useKnowledgeFiles.uploadFile: the upload coordinator *)

MaxBatch == 2          \* files handed to the upload dialog together

\* the files the user can pick; parts is name.split('.'), mime the keywords file.type holds
PickedFiles ==
    << [name |-> "report.pdf", parts |-> <<"report", "pdf">>, mime |-> {"pdf"}],
       [name |-> "notes", parts |-> <<"notes">>, mime |-> {"text"}],
       [name |-> "data.csv", parts |-> <<"data", "csv">>, mime |-> {"text", "csv"}],
       [name |-> "talk.", parts |-> <<"talk", "">>, mime |-> {}] >>

\* file.name.split('.').pop() || 'bin'
FileExtension(file) ==
    LET last == file.parts[Len(file.parts)] IN IF last = "" THEN "bin" ELSE last

\* getFileType: the logical type from the MIME type and the extension, 'txt' by default
getFileType(file) ==
    LET extension == file.parts[Len(file.parts)]
    IN  IF "pdf" \in file.mime \/ extension = "pdf" THEN "pdf"
        ELSE IF "text" \in file.mime \/ extension \in {"txt", "md"} THEN "txt"
        ELSE IF "csv" \in file.mime \/ extension = "csv" THEN "csv"
        ELSE IF "word" \in file.mime \/ extension \in {"doc", "docx"} THEN "docx"
        ELSE IF "audio" \in file.mime \/ extension \in {"mp3", "wav", "m4a"} THEN "audio"
        ELSE "txt"

\* `${user.id}/${fileRecord.id}.${fileExtension}`
OwnerPath(owner, id, file) == [dir |-> owner, id |-> id, ext |-> FileExtension(file)]

\* useFileUpload, bucket 'knowledge-files': `${sourceId}.${fileExtension}`
BucketPath(id, file) == [dir |-> "", id |-> id, ext |-> FileExtension(file)]

PendingStatus == "pending"
ProcessingStatus == "processing"

\* the row uploadFile inserts
NewFileRow(owner, file) ==
    [user_id |-> owner, title |-> file.name, file_path |-> NoPath,
     processing_status |-> PendingStatus]

\* ON DELETE CASCADE: the chunks of the files that no longer exist are deleted
Cascade(chunkTable, fileTable) ==
    [i \in {j \in DOMAIN chunkTable : chunkTable[j].file_id \in DOMAIN fileTable} |->
        chunkTable[i]]

\* one entry of the log of processing invocations: the file, the invoking code, whether
\* the invocation went through, and the status the file had when it was made
Invocation(table, f, via, ok) ==
    [file |-> f, via |-> via, ok |-> ok,
     status |-> IF f \in DOMAIN table THEN table[f].processing_status ELSE "missing"]

Upload(pc, rec, reason) == [pc |-> pc, rec |-> rec, reason |-> reason]
Proc(pc, reason) == [pc |-> pc, reason |-> reason]

Slots == 1..Len(batch.files)

\* supabase.from('knowledge_files').insert({..., processing_status: 'pending'})
UploadCreate(i, ok) ==
    /\ uploads[i].pc = "create"
    /\ IF ok
       THEN /\ knowledge_files' =
                   InsertRow(knowledge_files, nextFileId, NewFileRow(Owner, batch.files[i]))
            /\ nextFileId' = nextFileId + 1
            /\ uploads' = [uploads EXCEPT ![i] = Upload("blob", nextFileId, "")]
       ELSE /\ uploads' = [uploads EXCEPT ![i] = Upload("rejected", 0, "create")]
            /\ UNCHANGED <<knowledge_files, nextFileId>>
    /\ UNCHANGED <<storage, batch, procs, uploadingFiles, requests, webhookLog, reachedTerminal>>
    /\ UNCHANGED chunkVars

\* supabase.storage.from('knowledge-files').upload(filePath, file), and the clean-up of the
\* record when it fails (the result of the clean-up delete is not looked at)
UploadBlob(i, ok, delOk) ==
    /\ uploads[i].pc = "blob"
    /\ LET rec == uploads[i].rec
           filePath == OwnerPath(Owner, rec, batch.files[i])
       IN  IF ok /\ filePath \notin storage
           THEN /\ storage' = storage \cup {filePath}
                /\ uploads' = [uploads EXCEPT ![i] = Upload("update", rec, "")]
                /\ UNCHANGED <<knowledge_files, file_chunks>>
           ELSE /\ knowledge_files' = IF delOk THEN DeleteRows(knowledge_files, {rec})
                                      ELSE knowledge_files
                /\ file_chunks' = Cascade(file_chunks, knowledge_files')
                /\ uploads' = [uploads EXCEPT ![i] = Upload("rejected", rec, "blob")]
                /\ UNCHANGED storage
    /\ UNCHANGED <<nextFileId, batch, procs, uploadingFiles, requests, webhookLog,
                   reachedTerminal>>
    /\ UNCHANGED <<nextChunkId, chunks, invalidated, opCount, lastCall>>

\* .update({file_path: filePath, processing_status: 'processing'}).eq('id', id).select().single()
UploadUpdate(i, ok) ==
    /\ uploads[i].pc = "update"
    /\ LET rec == uploads[i].rec
           filePath == OwnerPath(Owner, rec, batch.files[i])
       IN  IF ok /\ rec \in DOMAIN knowledge_files
           THEN /\ knowledge_files' =
                       [knowledge_files EXCEPT ![rec].file_path = filePath,
                                               ![rec].processing_status = ProcessingStatus]
                /\ uploads' = [uploads EXCEPT ![i] = Upload("invoke", rec, "")]
           ELSE /\ uploads' = [uploads EXCEPT ![i] = Upload("rejected", rec, "update")]
                /\ UNCHANGED knowledge_files
    /\ UNCHANGED <<nextFileId, storage, batch, procs, uploadingFiles, requests, webhookLog,
                   reachedTerminal>>
    /\ UNCHANGED chunkVars

\* supabase.functions.invoke('process-document', ...): an error is logged, not thrown
UploadInvoke(i, ok) ==
    /\ uploads[i].pc = "invoke"
    /\ webhookLog' =
           webhookLog \cup {Invocation(knowledge_files, uploads[i].rec, "uploadFile", ok)}
    /\ uploads' = [uploads EXCEPT
                       ![i] = Upload("resolved", uploads[i].rec, IF ok THEN "" ELSE "invoke")]
    /\ UNCHANGED <<knowledge_files, nextFileId, storage, batch, procs, uploadingFiles,
                   requests, reachedTerminal>>
    /\ UNCHANGED chunkVars

----------------------------------------------------------------------------
(* useKnowledgeFiles.updateFile and deleteFile: the file registry *)

\* an updateFile mutation: the columns it sets (NoPath, "", NoTitle: column not set)
UpdateRequest(f, file_path, processing_status, title) ==
    [file |-> f, file_path |-> file_path, processing_status |-> processing_status,
     title |-> title]

\* .from('knowledge_files').update(updates).eq('id', fileId).select().single()
ApplyUpdateFile(r, ok) ==
    /\ r \in requests
    /\ requests' = requests \ {r}
    /\ knowledge_files' =
           IF ok /\ r.file \in OwnFiles(knowledge_files)
           THEN [knowledge_files EXCEPT
                    ![r.file].file_path = IF r.file_path # NoPath THEN r.file_path ELSE @,
                    ![r.file].processing_status =
                        IF r.processing_status # "" THEN r.processing_status ELSE @,
                    ![r.file].title = IF r.title # NoTitle THEN r.title ELSE @]
           ELSE knowledge_files
    /\ reachedTerminal' = reachedTerminal \cup TerminalFiles(knowledge_files')
    /\ UNCHANGED <<nextFileId, storage, batch, uploads, procs, uploadingFiles, webhookLog>>
    /\ UNCHANGED chunkVars

\* titles the user may type into the rename dialog
RenameTitles == {"Renamed", " "}

\* RenameFileDialog.handleSave
RenameFile(f, title) ==
    /\ f \in DOMAIN knowledge_files
    /\ Trim(<<title>>) # <<>>
    /\ title # knowledge_files[f].title
    /\ requests' = requests \cup {UpdateRequest(f, NoPath, "", title)}
    /\ opCount < MaxOps
    /\ opCount' = opCount + 1
    /\ UNCHANGED <<knowledge_files, nextFileId, storage, batch, uploads, procs, uploadingFiles,
                   webhookLog, reachedTerminal>>
    /\ UNCHANGED <<file_chunks, nextChunkId, chunks, invalidated, lastCall>>

\* deleteFile.mutationFn: read file_path, remove the blob (result not looked at), delete
\* the record; removed tells whether the read and the removal both went through. A row
\* the policies hide is neither read nor deleted, and the delete still returns no error
DeleteFile(f, removed, delOk) ==
    /\ f \in DOMAIN knowledge_files
    /\ storage' = IF removed /\ f \in OwnFiles(knowledge_files)
                     /\ knowledge_files[f].file_path # NoPath
                  THEN storage \ {knowledge_files[f].file_path}
                  ELSE storage
    /\ knowledge_files' = IF delOk
                          THEN DeleteRows(knowledge_files, {f} \cap OwnFiles(knowledge_files))
                          ELSE knowledge_files
    /\ file_chunks' = Cascade(file_chunks, knowledge_files')
    /\ lastCall' = Call("deleteFile", delOk, <<f>>, 0, {}, 0,
                        Faults(removed, "remove", delOk, "delete"))
    /\ opCount < MaxOps
    /\ opCount' = opCount + 1
    /\ UNCHANGED <<nextFileId, batch, uploads, procs, uploadingFiles, requests, webhookLog,
                   reachedTerminal>>
    /\ UNCHANGED <<nextChunkId, chunks, invalidated>>

----------------------------------------------------------------------------
(* process-knowledge-file: the edge function that starts a processing attempt *)

\* a status write that would put a file back at the start of its lifecycle
RestartStatus == "pending"

\* the status the function writes before it calls the webhook
ProcessStartStatus == "processing"

SetStatus(table, f, status) ==
    [g \in DOMAIN table |->
        IF g = f THEN [table[g] EXCEPT !.processing_status = status] ELSE table[g]]

\* serve(): one request; complete is FALSE when fileId, filePath or fileType is missing,
\* configured tells whether DOCUMENT_PROCESSING_WEBHOOK_URL is set, responseOk is
\* response.ok; the results of the status updates are not looked at
ProcessKnowledgeFile(f, complete, startOk, configured, responseOk, markOk) ==
    /\ opCount < MaxOps
    /\ opCount' = opCount + 1
    /\ IF ~complete
       THEN /\ lastCall' = Call("process-knowledge-file", FALSE, <<>>, 0, {}, 400, {})
            /\ UNCHANGED <<knowledge_files, webhookLog>>
       ELSE LET started == IF startOk THEN SetStatus(knowledge_files, f, ProcessStartStatus)
                           ELSE knowledge_files
                marked == IF markOk THEN SetStatus(started, f, FailedStatus) ELSE started
            IN  IF ~configured
                THEN /\ knowledge_files' = marked
                     /\ lastCall' = Call("process-knowledge-file", FALSE, <<f>>, 0, {}, 500,
                                         Faults(startOk, "start", markOk, "mark"))
                     /\ UNCHANGED webhookLog
                ELSE /\ webhookLog' = webhookLog \cup
                            {Invocation(started, f, "process-knowledge-file", responseOk)}
                     /\ knowledge_files' = IF responseOk THEN started ELSE marked
                     /\ lastCall' = Call("process-knowledge-file", responseOk, <<f>>, 0, {},
                                         IF responseOk THEN 200 ELSE 500,
                                         Faults(startOk, "start", markOk \/ responseOk, "mark"))
    /\ reachedTerminal' = reachedTerminal \cup TerminalFiles(knowledge_files')
    /\ UNCHANGED <<nextFileId, storage, batch, uploads, procs, uploadingFiles, requests>>
    /\ UNCHANGED <<file_chunks, nextChunkId, chunks, invalidated>>

----------------------------------------------------------------------------
(* UploadDialog: the two handleFileUpload variants the component file holds *)

\* setUploadingFiles(prev => prev.map(uf => uf.file.name === name ? {...uf, status} : uf))
SetStatusByName(entries, files, name, status) ==
    [j \in DOMAIN entries |-> IF files[j].name = name THEN status ELSE entries[j]]

\* setUploadingFiles(prev => prev.map((uf, index) => index === i ? {...uf, status} : uf))
SetStatusByIndex(entries, i, status) ==
    [j \in DOMAIN entries |-> IF j = i THEN status ELSE entries[j]]

\* toast({title, description}): the title and the numbers the description states
Toast(title, numbers) == [title |-> title, numbers |-> numbers]

\* entries.filter(uf => uf.status === status).length
CountStatus(entries, status) == Cardinality({j \in DOMAIN entries : entries[j] = status})

\* the uploadingFiles the sequential handler reads after its loop: the list of the render
\* that created the handler (handleFileSelect and handleDrop are memoised with no
\* dependencies), which is the initial, empty list
CapturedUploadingFiles == <<>>

\* "Upload Complete": `${successful} files uploaded successfully, ${failed} failed`,
\* shown when successful > 0
CompletionToasts(entries) ==
    LET successful == CountStatus(entries, "completed")
        failed == CountStatus(entries, "error")
    IN  IF successful > 0
        THEN <<Toast("Upload Complete",
                     IF failed > 0 THEN <<successful, failed>> ELSE <<successful>>)>>
        ELSE <<>>

\* the result Promise.allSettled sees for one processFileAsync: the function catches
\* every error, so its promise is always fulfilled
SettledResult(proc) == "fulfilled"

\* "Processing Issues": `${failed} files had processing issues`, shown when failed > 0
IssueToasts(results) ==
    LET failed == CountStatus(results, "rejected")
    IN  IF failed > 0 THEN <<Toast("Processing Issues", <<failed>>)>> ELSE <<>>

\* the first n of the files the user can pick
BatchFiles(n) == SubSeq(PickedFiles, 1, n)

\* handleFileUpload(files): "parallel" is the variant that awaits Promise.all over
\* uploadFileAsync, "sequential" the one that loops over the files
HandleFileUpload(variant, n) ==
    /\ batch.phase = "idle"
    /\ batch' = [variant |-> variant, files |-> BatchFiles(n), phase |-> "uploading",
                 index |-> IF variant = "sequential" THEN 1 ELSE 0, timer |-> "none",
                 toasts |-> <<>>]
    /\ uploadingFiles' = [i \in 1..n |-> "uploading"]
    /\ uploads' = [i \in 1..n |->
                      IF variant = "parallel" \/ i = 1 THEN Upload("create", 0, "")
                      ELSE Upload("idle", 0, "")]
    /\ procs' = [i \in 1..n |-> Proc("idle", "")]
    /\ UNCHANGED <<knowledge_files, nextFileId, storage, requests, webhookLog, reachedTerminal>>
    /\ UNCHANGED chunkVars

\* Promise.all resolved: processFileAsync is started for every file, the closing timer set
DialogRecordsCreated ==
    /\ batch.variant = "parallel"
    /\ batch.phase = "uploading"
    /\ \A i \in Slots : uploads[i].pc = "resolved"
    /\ procs' = [i \in Slots |-> Proc("blob", "")]
    /\ batch' = [batch EXCEPT !.phase = "processing", !.timer = "armed",
                              !.toasts = Append(@, Toast("Files Added", <<Len(batch.files)>>))]
    /\ UNCHANGED <<knowledge_files, nextFileId, storage, uploads, uploadingFiles, requests,
                   webhookLog, reachedTerminal>>
    /\ UNCHANGED chunkVars

\* Promise.all rejected: the catch marks every entry of the list as error
DialogCatch ==
    /\ batch.variant = "parallel"
    /\ batch.phase = "uploading"
    /\ \E i \in Slots : uploads[i].pc = "rejected"
    /\ uploadingFiles' = [j \in DOMAIN uploadingFiles |-> "error"]
    /\ batch' = [batch EXCEPT !.phase = "failed", !.toasts = Append(@, Toast("Error", <<>>))]
    /\ UNCHANGED <<knowledge_files, nextFileId, storage, uploads, procs, requests, webhookLog,
                   reachedTerminal>>
    /\ UNCHANGED chunkVars

\* processFileAsync up to the processing call: useFileUpload.uploadFile, then either the
\* updateFile of path and status, or the catch that issues status failed
ProcUpload(i, ok) ==
    /\ procs[i].pc = "blob"
    /\ LET rec == uploads[i].rec
           file == batch.files[i]
           filePath == BucketPath(rec, file)
       IN  IF ok /\ filePath \notin storage
           THEN /\ storage' = storage \cup {filePath}
                /\ requests' = requests \cup
                                   {UpdateRequest(rec, filePath, ProcessingStatus, NoTitle)}
                /\ uploadingFiles' =
                       SetStatusByName(uploadingFiles, batch.files, file.name, "processing")
                /\ procs' = [procs EXCEPT ![i] = Proc("process", "")]
           ELSE /\ requests' = requests \cup
                                   {UpdateRequest(rec, NoPath, FailedStatus, NoTitle)}
                /\ uploadingFiles' =
                       SetStatusByName(uploadingFiles, batch.files, file.name, "error")
                /\ procs' = [procs EXCEPT ![i] = Proc("done", "blob")]
                /\ UNCHANGED storage
    /\ UNCHANGED <<knowledge_files, nextFileId, batch, uploads, webhookLog, reachedTerminal>>
    /\ UNCHANGED chunkVars

\* useDocumentProcessing.processDocumentAsync: invokes the processing webhook for the file
processDocumentAsync(log, table, sourceId, ok) ==
    log \cup {Invocation(table, sourceId, "processDocumentAsync", ok)}

\* processFileAsync from the processing call on: when it throws, the inner catch issues
\* status completed
ProcProcess(i, ok) ==
    /\ procs[i].pc = "process"
    /\ webhookLog' = processDocumentAsync(webhookLog, knowledge_files, uploads[i].rec, ok)
    /\ requests' = IF ok THEN requests
                   ELSE requests \cup
                            {UpdateRequest(uploads[i].rec, NoPath, CompletedStatus, NoTitle)}
    /\ uploadingFiles' =
           SetStatusByName(uploadingFiles, batch.files, batch.files[i].name, "completed")
    /\ procs' = [procs EXCEPT ![i] = Proc("done", IF ok THEN "" ELSE "process")]
    /\ UNCHANGED <<knowledge_files, nextFileId, storage, batch, uploads, reachedTerminal>>
    /\ UNCHANGED chunkVars

\* Promise.allSettled(processingPromises).then(...)
DialogSettled ==
    /\ batch.phase = "processing"
    /\ \A i \in Slots : procs[i].pc = "done"
    /\ batch' = [batch EXCEPT
                     !.phase = "settled",
                     !.toasts = @ \o IssueToasts([i \in Slots |-> SettledResult(procs[i])])]
    /\ UNCHANGED <<knowledge_files, nextFileId, storage, uploads, procs, uploadingFiles,
                   requests, webhookLog, reachedTerminal>>
    /\ UNCHANGED chunkVars

\* the loop of the sequential variant moves to the next file, or ends and sets the closing
\* timer (the counts it reads come from the list captured when the handler was created)
Advance(b, i) ==
    IF i < Len(b.files) THEN [b EXCEPT !.index = i + 1]
    ELSE [b EXCEPT !.phase = "done",
                   !.timer = IF CountStatus(CapturedUploadingFiles, "error") = 0
                             THEN "armed" ELSE @,
                   !.toasts = @ \o CompletionToasts(CapturedUploadingFiles)]

StartNext(ups, b, i) ==
    IF i < Len(b.files) THEN [ups EXCEPT ![i + 1] = Upload("create", 0, "")] ELSE ups

\* sequential variant: uploadFileAsync of file i settled
SequentialUploadSettled(i) ==
    /\ batch.variant = "sequential"
    /\ batch.phase = "uploading"
    /\ batch.index = i
    /\ procs[i].pc = "idle"
    /\ uploads[i].pc \in {"resolved", "rejected"}
    /\ IF uploads[i].pc = "resolved"
       THEN /\ uploadingFiles' = SetStatusByIndex(uploadingFiles, i, "processing")
            /\ procs' = [procs EXCEPT ![i] = Proc("timer", "")]
            /\ UNCHANGED <<batch, uploads>>
       ELSE /\ uploadingFiles' = SetStatusByIndex(uploadingFiles, i, "error")
            /\ procs' = [procs EXCEPT ![i] = Proc("done", "upload")]
            /\ batch' = Advance(batch, i)
            /\ uploads' = StartNext(uploads, batch, i)
    /\ UNCHANGED <<knowledge_files, nextFileId, storage, requests, webhookLog, reachedTerminal>>
    /\ UNCHANGED chunkVars

\* sequential variant: the one-second wait of file i is over
SequentialTimer(i) ==
    /\ batch.variant = "sequential"
    /\ batch.index = i
    /\ procs[i].pc = "timer"
    /\ uploadingFiles' = SetStatusByIndex(uploadingFiles, i, "completed")
    /\ procs' = [procs EXCEPT ![i] = Proc("done", "")]
    /\ batch' = Advance(batch, i)
    /\ uploads' = StartNext(uploads, batch, i)
    /\ UNCHANGED <<knowledge_files, nextFileId, storage, requests, webhookLog, reachedTerminal>>
    /\ UNCHANGED chunkVars

\* setTimeout(() => { setUploadingFiles([]); onOpenChange(false) }, 2000)
AutoClose ==
    /\ batch.timer = "armed"
    /\ batch' = [batch EXCEPT !.timer = "fired"]
    /\ uploadingFiles' = <<>>
    /\ UNCHANGED <<knowledge_files, nextFileId, storage, uploads, procs, requests, webhookLog,
                   reachedTerminal>>
    /\ UNCHANGED chunkVars

----------------------------------------------------------------------------
(* The upload pipeline: the dialog, the registry, the edge functions *)

Init ==
    /\ knowledge_files = <<>>
    /\ nextFileId = 1
    /\ file_chunks = <<>>
    /\ nextChunkId = 1
    /\ chunks = <<>>
    /\ invalidated = FALSE
    /\ opCount = 0
    /\ lastCall = NoCall
    /\ storage = {}
    /\ batch = NoBatch
    /\ uploads = <<>>
    /\ procs = <<>>
    /\ uploadingFiles = <<>>
    /\ requests = {}
    /\ webhookLog = {}
    /\ reachedTerminal = {}
    /\ views = NoViews

\* the ids of the files created so far
KnownFileIds == 1..(nextFileId - 1)

\* the chunk lists a callback carries here: none, one chunk, one chunk without content
CallbackPayloads == {p \in PayloadChunkLists : Len(p) <= 1}

Variants == {"parallel", "sequential"}

\* a promise the dialog awaits has settled: its continuation runs before the next response
\* or request is handled
Settling ==
    \/ /\ batch.variant = "parallel"
       /\ batch.phase = "uploading"
       /\ \/ \E i \in Slots : uploads[i].pc = "rejected"
          \/ \A i \in Slots : uploads[i].pc = "resolved"
    \/ /\ batch.phase = "processing"
       /\ \A i \in Slots : procs[i].pc = "done"
    \/ /\ batch.variant = "sequential"
       /\ batch.phase = "uploading"
       /\ procs[batch.index].pc = "idle"
       /\ uploads[batch.index].pc \in {"resolved", "rejected"}

\* the user hands one file to the dialog
HandleFileUploadStep == \E variant \in Variants : HandleFileUpload(variant, 1)

\* the user hands several files to the dialog together
HandleFilesUploadStep ==
    \E variant \in Variants, n \in 1..MaxBatch : HandleFileUpload(variant, n)

UploadCreateStep == ~Settling /\ \E i \in Slots, ok \in BOOLEAN : UploadCreate(i, ok)

UploadBlobStep == ~Settling /\ \E i \in Slots, ok, delOk \in BOOLEAN : UploadBlob(i, ok, delOk)

UploadUpdateStep == ~Settling /\ \E i \in Slots, ok \in BOOLEAN : UploadUpdate(i, ok)

UploadInvokeStep == ~Settling /\ \E i \in Slots, ok \in BOOLEAN : UploadInvoke(i, ok)

ProcUploadStep == ~Settling /\ \E i \in Slots, ok \in BOOLEAN : ProcUpload(i, ok)

ProcProcessStep == ~Settling /\ \E i \in Slots, ok \in BOOLEAN : ProcProcess(i, ok)

SequentialUploadSettledStep == \E i \in Slots : SequentialUploadSettled(i)

SequentialTimerStep == ~Settling /\ \E i \in Slots : SequentialTimer(i)

AutoCloseStep == ~Settling /\ AutoClose

ApplyUpdateFileStep == ~Settling /\ \E r \in requests, ok \in BOOLEAN : ApplyUpdateFile(r, ok)

RenameFileStep == ~Settling /\ \E f \in KnownFileIds, title \in RenameTitles : RenameFile(f, title)

DeleteFileStep ==
    ~Settling /\ \E f \in KnownFileIds, removed, delOk \in BOOLEAN : DeleteFile(f, removed, delOk)

\* the outcomes a process-knowledge-file request depends on: a request that is not
\* reached (after a 400, without the webhook being called, after its success) has one
\* outcome
ProcessKnowledgeFileReads(complete, startOk, configured, responseOk, markOk) ==
    /\ ~complete => startOk /\ configured /\ responseOk
    /\ ~configured => ~responseOk
    /\ (configured /\ responseOk) => markOk

ProcessKnowledgeFileStep ==
    ~Settling /\ \E f \in KnownFileIds, complete, startOk, configured, responseOk, markOk \in BOOLEAN :
        /\ ProcessKnowledgeFileReads(complete, startOk, configured, responseOk, markOk)
        /\ ProcessKnowledgeFile(f, complete, startOk, configured, responseOk, markOk)

\* the inputs and outcomes a callback depends on: a body without file_id is read no
\* further, a failure callback and a failed status update never reach title and chunks,
\* and no insert is made for an empty chunk list
CallbackReads(has_file_id, failed, updOk, insOk, title, payloadChunks) ==
    /\ ~has_file_id => failed /\ updOk
    /\ (failed \/ ~updOk) => title = NoTitle /\ payloadChunks = <<>>
    /\ payloadChunks = <<>> => insOk

CallbackStep ==
    ~Settling /\ \E has_file_id, failed, updOk, insOk \in BOOLEAN, file_id \in KnownFileIds,
       title \in CallbackTitles, payloadChunks \in CallbackPayloads :
        /\ CallbackReads(has_file_id, failed, updOk, insOk, title, payloadChunks)
        /\ Callback(has_file_id, file_id, failed, title, payloadChunks, updOk, insOk)

Next ==
    \/ HandleFileUploadStep /\ UNCHANGED views
    \/ UploadCreateStep /\ UNCHANGED views
    \/ UploadBlobStep /\ UNCHANGED views
    \/ UploadUpdateStep /\ UNCHANGED views
    \/ UploadInvokeStep /\ UNCHANGED views
    \/ DialogRecordsCreated /\ UNCHANGED views
    \/ DialogCatch /\ UNCHANGED views
    \/ ProcUploadStep /\ UNCHANGED views
    \/ ProcProcessStep /\ UNCHANGED views
    \/ DialogSettled /\ UNCHANGED views
    \/ SequentialUploadSettledStep /\ UNCHANGED views
    \/ SequentialTimerStep /\ UNCHANGED views
    \/ AutoCloseStep /\ UNCHANGED views
    \/ ApplyUpdateFileStep /\ UNCHANGED views
    \/ RenameFileStep /\ UNCHANGED views
    \/ DeleteFileStep /\ UNCHANGED views
    \/ ProcessKnowledgeFileStep /\ UNCHANGED views
    \/ CallbackStep /\ UNCHANGED views

\* one file through the pipeline, with the registry operations, the processing requests and
\* the callbacks of the outside world
Spec == Init /\ [][Next]_vars

NextBatch ==
    \/ HandleFilesUploadStep /\ UNCHANGED views
    \/ UploadCreateStep /\ UNCHANGED views
    \/ UploadBlobStep /\ UNCHANGED views
    \/ UploadUpdateStep /\ UNCHANGED views
    \/ UploadInvokeStep /\ UNCHANGED views
    \/ DialogRecordsCreated /\ UNCHANGED views
    \/ DialogCatch /\ UNCHANGED views
    \/ ProcUploadStep /\ UNCHANGED views
    \/ ProcProcessStep /\ UNCHANGED views
    \/ DialogSettled /\ UNCHANGED views
    \/ SequentialUploadSettledStep /\ UNCHANGED views
    \/ SequentialTimerStep /\ UNCHANGED views
    \/ AutoCloseStep /\ UNCHANGED views
    \/ ApplyUpdateFileStep /\ UNCHANGED views

\* several files handed to the dialog together, on their own
SpecBatch == Init /\ [][NextBatch]_vars

----------------------------------------------------------------------------
(* The callback handler on one uploaded file *)

\* the state after uploadFile went through for one file: record processing, blob stored,
\* no chunk yet
InitCallback ==
    /\ knowledge_files = [f \in {fileId} |-> UploadedFile(fileId, "report.pdf", "pdf")]
    /\ nextFileId = fileId + 1
    /\ file_chunks = <<>>
    /\ nextChunkId = 1
    /\ chunks = <<>>
    /\ invalidated = FALSE
    /\ opCount = 0
    /\ lastCall = NoCall
    /\ storage = {[dir |-> Owner, id |-> fileId, ext |-> "pdf"]}
    /\ batch = NoBatch
    /\ uploads = <<>>
    /\ procs = <<>>
    /\ uploadingFiles = <<>>
    /\ requests = {}
    /\ webhookLog = {}
    /\ reachedTerminal = {}
    /\ views = NoViews

\* the chunk lists the processor sends: the first n chunks of the document, or one chunk
\* whose content is empty
CallbackDocuments ==
    {Document(n) : n \in 0..MaxPayloadChunks} \cup {<<[content |-> <<>>]>>}

\* the file ids a callback may name: the uploaded file and an id no record has
CallbackFileIds == {fileId, nextFileId}

DocumentCallbackStep ==
    \E has_file_id, failed, updOk, insOk \in BOOLEAN, file_id \in CallbackFileIds,
       title \in CallbackTitles, payloadChunks \in CallbackDocuments :
        Callback(has_file_id, file_id, failed, title, payloadChunks, updOk, insOk)

NextCallback == DocumentCallbackStep /\ UNCHANGED views

SpecCallback == InitCallback /\ [][NextCallback]_vars

----------------------------------------------------------------------------
(* The registry and the chunk editor used on a file of another user *)

\* a user other than the signed-in one
OtherUser == "B"

\* the file of the other user, uploaded and processed into the first n chunks of the
\* document; the signed-in user's chunk query returns no row of it
InitAccess ==
    \E n \in 1..MaxPayloadChunks :
        /\ knowledge_files =
               UpdateFileRow([f \in {fileId} |->
                                 [UploadedFile(fileId, "report.pdf", "pdf") EXCEPT
                                     !.user_id = OtherUser, !.file_path.dir = OtherUser]],
                             fileId, CompletedStatus, NoTitle)
        /\ nextFileId = fileId + 1
        /\ file_chunks = InsertRows(<<>>, 1, ChunkData(fileId, Document(n)))
        /\ nextChunkId = n + 1
        /\ chunks = <<>>
        /\ invalidated = FALSE
        /\ opCount = 0
        /\ lastCall = NoCall
        /\ storage = {[dir |-> OtherUser, id |-> fileId, ext |-> "pdf"]}
        /\ batch = NoBatch
        /\ uploads = <<>>
        /\ procs = <<>>
        /\ uploadingFiles = <<>>
        /\ requests = {}
        /\ webhookLog = {}
        /\ reachedTerminal = {fileId}
        /\ views = NoViews

NextAccess ==
    \/ Refetch /\ UNCHANGED views
    \/ UpdateChunkStep /\ UNCHANGED views
    \/ DeleteChunkStep /\ UNCHANGED views
    \/ SplitChunkStep /\ UNCHANGED views
    \/ MergeChunksStep /\ UNCHANGED views
    \/ RenameFileStep /\ UNCHANGED views
    \/ ApplyUpdateFileStep /\ UNCHANGED views
    \/ DeleteFileStep /\ UNCHANGED views

SpecAccess == InitAccess /\ [][NextAccess]_vars

----------------------------------------------------------------------------
(* useKnowledgeFiles: the files query and its real-time subscription *)

MaxViews == 2

\* retry: failureCount < 3
RetryLimit == 3

\* the clients that have the file list open, all signed in as the same user
Viewers == 1..MaxViews

\* the client whose registry and chunk-editor calls are the ones modelled
Actor == 1

\* queryFn of ['knowledge-files', user.id]: the user's files, each with its chunk count
FileList(fileTable, chunkTable) ==
    [f \in OwnFiles(fileTable) |->
        [title |-> fileTable[f].title, processing_status |-> fileTable[f].processing_status,
         chunk_count |-> Cardinality(ChunkIdsOf(chunkTable, f))]]

\* one client: the cached result of the files query, the state of the query ("idle",
\* "fetching" while an attempt or a retry is due, "error" once the retries are used up),
\* the failed attempts of the running fetch, and whether a change event is waiting for
\* the subscription callback
View(files, query, failures, notified) ==
    [files |-> files, query |-> query, failures |-> failures, notified |-> notified]

\* queryClient.invalidateQueries({queryKey: ['knowledge-files', user.id]}): the running
\* fetch is cancelled and the query fetched again
Invalidate(view) == [view EXCEPT !.query = "fetching", !.failures = 0]

\* what a step of the datastore means to the clients: changed, a row of the user in
\* knowledge_files was inserted, updated or deleted (one event for every subscription);
\* succeeded, a mutation of the actor ran its onSuccess
Publish(changed, succeeded) ==
    views' = [v \in DOMAIN views |->
                 LET noted == [views[v] EXCEPT !.notified = @ \/ changed]
                 IN  IF succeeded /\ v = Actor THEN Invalidate(noted) ELSE noted]

\* the subscription callback: (payload) => invalidateQueries
Notify(v) ==
    /\ views[v].notified
    /\ views' = [views EXCEPT ![v] = [Invalidate(@) EXCEPT !.notified = FALSE]]
    /\ UNCHANGED chunkVars
    /\ UNCHANGED fileVars

\* one attempt of the files query; a failed attempt is retried while failureCount < 3
FetchFiles(v, ok) ==
    /\ views[v].query = "fetching"
    /\ views' = [views EXCEPT ![v] =
                     IF ok
                     THEN View(FileList(knowledge_files, file_chunks), "idle", 0, @.notified)
                     ELSE IF @.failures < RetryLimit
                     THEN [@ EXCEPT !.failures = @ + 1]
                     ELSE [@ EXCEPT !.query = "error", !.failures = 0]]
    /\ UNCHANGED chunkVars
    /\ UNCHANGED fileVars

\* the file list open in every client on one uploaded file that is being processed
InitViews ==
    /\ knowledge_files = [f \in {fileId} |-> UploadedFile(fileId, "report.pdf", "pdf")]
    /\ nextFileId = fileId + 1
    /\ file_chunks = <<>>
    /\ nextChunkId = 1
    /\ chunks = <<>>
    /\ invalidated = FALSE
    /\ opCount = 0
    /\ lastCall = NoCall
    /\ storage = {[dir |-> Owner, id |-> fileId, ext |-> "pdf"]}
    /\ batch = NoBatch
    /\ uploads = <<>>
    /\ procs = <<>>
    /\ uploadingFiles = <<>>
    /\ requests = {}
    /\ webhookLog = {}
    /\ reachedTerminal = {}
    /\ views = [v \in Viewers |-> View(FileList(knowledge_files, file_chunks), "idle", 0, FALSE)]

NotifyStep == \E v \in Viewers : Notify(v)

FetchFilesStep(v) == \E ok \in BOOLEAN : FetchFiles(v, ok)

RenameFileSeen ==
    \E f \in KnownFileIds, title \in RenameTitles : RenameFile(f, title) /\ Publish(FALSE, FALSE)

ApplyUpdateFileSeen ==
    \E r \in requests, ok \in BOOLEAN :
        /\ ApplyUpdateFile(r, ok)
        /\ Publish(ok /\ r.file \in OwnFiles(knowledge_files),
                   ok /\ r.file \in OwnFiles(knowledge_files))

DeleteFileSeen ==
    \E f \in KnownFileIds, removed, delOk \in BOOLEAN :
        /\ DeleteFile(f, removed, delOk)
        /\ Publish(delOk /\ f \in OwnFiles(knowledge_files), delOk)

CallbackSeen ==
    \E has_file_id, failed, updOk, insOk \in BOOLEAN, file_id \in KnownFileIds,
       title \in CallbackTitles, payloadChunks \in CallbackPayloads :
        /\ Callback(has_file_id, file_id, failed, title, payloadChunks, updOk, insOk)
        /\ Publish(has_file_id /\ updOk /\ file_id \in DOMAIN knowledge_files, FALSE)

NextViews ==
    \/ NotifyStep
    \/ \E v \in Viewers : FetchFilesStep(v)
    \/ RenameFileSeen
    \/ ApplyUpdateFileSeen
    \/ DeleteFileSeen
    \/ CallbackSeen
    \/ Refetch /\ UNCHANGED views
    \/ DeleteChunkStep /\ Publish(FALSE, FALSE)
    \/ SplitChunkStep /\ Publish(FALSE, FALSE)
    \/ MergeChunksStep /\ Publish(FALSE, FALSE)

\* every event is handed to its callback, every due attempt of a query is made, and every
\* request sent is answered
FairViews ==
    /\ \A v \in Viewers : WF_vars(Notify(v)) /\ WF_vars(FetchFilesStep(v))
    /\ WF_vars(ApplyUpdateFileSeen)

SpecViews == InitViews /\ [][NextViews]_vars /\ FairViews

----------------------------------------------------------------------------
(* Claims about the chunk editor (checked under SpecChunks) *)

\* the step just taken was a call of the chunk-editor operation op that reported success
Succeeded(op) == opCount' = opCount + 1 /\ lastCall'.op = op /\ lastCall'.ok

\* ... and in which the datastore failed no request
SucceededFaultless(op) == Succeeded(op) /\ lastCall'.faults = {}

\* every listing of the ids in S that is ascending in the ordering key of table
AscendingOrders(table, S) ==
    LET n == Cardinality(S)
    IN  {q \in [1..n -> S] :
            /\ \A i, j \in 1..n : i # j => q[i] # q[j]
            /\ \A i, j \in 1..n : i < j => table[q[i]].chunk_index <= table[q[j]].chunk_index}

\* the members of S with the lowest ordering key in table
LowestOf(table, S) == {i \in S : \A j \in S : table[i].chunk_index <= table[j].chunk_index}

\* the contents of the rows listed by q, joined with a blank line
JoinedContent(table, q) == Join([i \in 1..Len(q) |-> table[q[i]].content], Separator)

\* the chunk ids given to the merge just made, all rows of one file before the call
MergeSet == Range(lastCall'.ids)
MergeOfStoredChunks ==
    /\ SucceededFaultless("merge")
    /\ MergeSet \subseteq DOMAIN file_chunks
    /\ \A i, j \in MergeSet : file_chunks[i].file_id = file_chunks[j].file_id

\* C1: after a successful mergeChunks on a set S of two or more chunk ids of one file,
\* given in any order, the member of S with the lowest ordering key still exists and its
\* content is the contents of the members of S joined in ascending-key order by "\n\n".
\* (Stated for the calls in which every datastore request succeeds: the claim at its
\* most favourable.)
C1_MergeKeepsLowestWithJoinedContent ==
    [][MergeOfStoredChunks =>
          \E low \in LowestOf(file_chunks, MergeSet) :
              /\ low \in DOMAIN file_chunks'
              /\ \E q \in AscendingOrders(file_chunks, MergeSet) :
                     file_chunks'[low].content = JoinedContent(file_chunks, q)]_vars

\* C2: a successful mergeChunks on S removes exactly |S| - 1 rows, each a member of S
\* other than the lowest-keyed one, and changes or removes no chunk outside S.
\* (Stated, like C1, for the calls in which every datastore request succeeds.)
C2_MergeRemovesAllButLowest ==
    [][MergeOfStoredChunks =>
          LET removed == DOMAIN file_chunks \ DOMAIN file_chunks'
          IN  /\ Cardinality(removed) = Cardinality(MergeSet) - 1
              /\ \E low \in LowestOf(file_chunks, MergeSet) : removed = MergeSet \ {low}
              /\ \A i \in DOMAIN file_chunks \ MergeSet :
                     i \in DOMAIN file_chunks' /\ file_chunks'[i] = file_chunks[i]]_vars

\* the split just made: of a stored chunk, at an offset within its content
SplitId == lastCall'.ids[1]
SplitOfStoredChunk ==
    /\ Succeeded("split")
    /\ SplitId \in DOMAIN file_chunks
    /\ lastCall'.point \in 0..Len(file_chunks[SplitId].content)

\* C3: a successful splitChunk of a chunk with content C at offset k leaves the prefix
\* C[0..k) in the original chunk and inserts a new chunk of the same file holding the
\* suffix C[k..); the two lengths add up to the length of C.
C3_SplitPrefixAndSuffix ==
    [][SplitOfStoredChunk =>
          LET C == file_chunks[SplitId].content
              k == lastCall'.point
          IN  /\ SplitId \in DOMAIN file_chunks'
              /\ file_chunks'[SplitId].content = SubSeq(C, 1, k)
              /\ \E new \in lastCall'.inserted :
                     /\ new \notin DOMAIN file_chunks
                     /\ file_chunks'[new].file_id = file_chunks[SplitId].file_id
                     /\ file_chunks'[new].content = SubSeq(C, k + 1, Len(C))
                     /\ Len(file_chunks'[SplitId].content) + Len(file_chunks'[new].content)
                            = Len(C)]_vars

\* the chunks of the same file that follow chunk id in key order
Successors(table, id) ==
    {j \in ChunkIdsOf(table, table[id].file_id) : table[j].chunk_index > table[id].chunk_index}

\* C4: every split gives the new chunk an ordering key strictly between the key of the
\* chunk being split and the key of its immediate successor in the file, and never a key
\* equal to that of an existing chunk.
C4_SplitKeyStrictlyBetween ==
    [][SplitOfStoredChunk /\ lastCall'.faults = {} =>
          \A new \in lastCall'.inserted :
              LET key == file_chunks'[new].chunk_index
              IN  /\ file_chunks[SplitId].chunk_index < key
                  /\ \A j \in Successors(file_chunks, SplitId) : key < file_chunks[j].chunk_index
                  /\ \A j \in ChunkIdsOf(file_chunks, file_chunks[SplitId].file_id) :
                         file_chunks[j].chunk_index # key]_vars

----------------------------------------------------------------------------
(* Claims about the upload pipeline (checked under Spec and SpecBatch) *)

\* the position of a status on the lifecycle pending -> processing -> {completed, failed}
Rank(status) ==
    IF status = PendingStatus THEN 0
    ELSE IF status = ProcessingStatus THEN 1
    ELSE 2

\* C5: every change of a file's processing_status moves forward along
\* pending -> processing -> {completed, failed}: no step takes a file from processing back
\* to pending, or from completed or failed back to processing or pending.
C5_StatusMovesForward ==
    [][\A f \in DOMAIN knowledge_files \cap DOMAIN knowledge_files' :
          Rank(knowledge_files'[f].processing_status) >=
              Rank(knowledge_files[f].processing_status)]_vars

\* C6: a file that has reached completed or failed is never observed with status pending
\* afterwards.
C6_TerminalNeverPendingAgain ==
    \A f \in reachedTerminal \cap DOMAIN knowledge_files :
        knowledge_files[f].processing_status # PendingStatus

\* a file that reached completed or failed and whose status was written again afterwards
C6_TerminalFileRewritten ==
    \E f \in reachedTerminal \cap DOMAIN knowledge_files :
        knowledge_files[f].processing_status = ProcessingStatus

\* C7: the upload creates the record as pending, stores the blob, then sets file_path and
\* status processing, then invokes the webhook; hence a file in status processing has a
\* stored blob at its file_path, and no webhook invocation is made for a file that is
\* still pending.
C7_ProcessingHasBlobAndWebhookNotPending ==
    /\ \A f \in DOMAIN knowledge_files :
           knowledge_files[f].processing_status = ProcessingStatus
               => /\ knowledge_files[f].file_path # NoPath
                  /\ knowledge_files[f].file_path \in storage
    /\ \A e \in webhookLog : e.status # PendingStatus

\* C8: after an upload whose blob write failed, no record for the file exists and no
\* webhook invocation was made for it.
C8_FailedBlobWriteLeavesNothing ==
    \A i \in DOMAIN uploads :
        (uploads[i].reason = "blob" \/ procs[i].reason = "blob")
            => /\ uploads[i].rec \notin DOMAIN knowledge_files
               /\ \A e \in webhookLog : e.file # uploads[i].rec

\* C9: when a file was uploaded (status processing, blob stored at its file_path) and an
\* invocation of the processing webhook for it fails, the record is kept, its status
\* remains processing, and no status change is issued for it.
C9_WebhookFailureKeepsProcessing ==
    [][\A e \in webhookLog' \ webhookLog :
          (/\ ~e.ok
           /\ e.file \in DOMAIN knowledge_files
           /\ knowledge_files[e.file].processing_status = ProcessingStatus
           /\ knowledge_files[e.file].file_path \in storage)
              => /\ e.file \in DOMAIN knowledge_files'
                 /\ knowledge_files'[e.file].processing_status = ProcessingStatus
                 /\ \A r \in requests' \ requests :
                        r.file = e.file => r.processing_status = ""]_vars

\* C10: a file of a batch whose own upload went through, and whose own processing did not
\* fail at the blob write, is not shown as failed because of another file of the batch.
C10_FailureStaysWithItsFile ==
    \A i \in DOMAIN uploadingFiles :
        uploadingFiles[i] = "error"
            => \/ uploads[i].pc # "resolved"
               \/ procs[i].reason = "blob"

\* the files of the batch whose upload went through: uploadFile resolved and, where
\* processFileAsync ran, its blob write did not fail
SucceededSlots == {i \in Slots : uploads[i].pc = "resolved" /\ procs[i].reason # "blob"}

\* the batch is over: the dialog is done with it and no upload is in flight
BatchFinished ==
    /\ batch.phase \in {"done", "settled", "failed"}
    /\ \A i \in Slots : uploads[i].pc \in {"resolved", "rejected"}

\* some toast states s succeeded and f failed (a toast stating one number only tells
\* the number of successes, and that nothing failed)
Told(s, f) ==
    \E k \in DOMAIN batch.toasts :
        \/ batch.toasts[k].numbers = <<s, f>>
        \/ /\ f = 0
           /\ batch.toasts[k].numbers = <<s>>
           /\ batch.toasts[k].title \in {"Upload Complete", "Files Added"}

\* C11: after a batch upload finishes, the user is told how many files succeeded and how
\* many failed, and the two numbers are the actual numbers.
C11_BatchCountsReported ==
    BatchFinished =>
        Told(Cardinality(SucceededSlots), Len(batch.files) - Cardinality(SucceededSlots))

----------------------------------------------------------------------------
(* Claims about the callback handler (checked under SpecCallback) *)

\* the chunk rows a step created
NewChunkRows == DOMAIN file_chunks' \ DOMAIN file_chunks

\* a step leaves every chunk row that existed before it as it was
OldChunkRowsKept ==
    \A i \in DOMAIN file_chunks : i \in DOMAIN file_chunks' /\ file_chunks'[i] = file_chunks[i]

\* the rows created by a step are exactly one row per payload, the k-th created row
\* (ids are given in insertion order) holding index k-1 and the content of payload k
RowsMatchPayload(f, payloadChunks) ==
    /\ NewChunkRows = {nextChunkId + k - 1 : k \in 1..Len(payloadChunks)}
    /\ \A k \in 1..Len(payloadChunks) :
           LET row == file_chunks'[nextChunkId + k - 1]
           IN  /\ row.file_id = f
               /\ row.chunk_index = IndexUnit * (k - 1)
               /\ row.content = payloadChunks[k].content

\* C12: a success callback for an existing file with n chunk payloads, every datastore
\* request going through, sets the status to completed, overwrites the title iff a title
\* is supplied, and inserts exactly n rows for the file with chunk_index 0..n-1 in the
\* order received, each holding the content of its payload.
C12_SuccessCallbackStoresPayload ==
    [][\A f \in DOMAIN knowledge_files, title \in CallbackTitles,
          payloadChunks \in CallbackDocuments :
          Callback(TRUE, f, FALSE, title, payloadChunks, TRUE, TRUE)
              => /\ knowledge_files'[f].processing_status = CompletedStatus
                 /\ knowledge_files'[f].title =
                        (IF title # NoTitle THEN title ELSE knowledge_files[f].title)
                 /\ RowsMatchPayload(f, payloadChunks)
                 /\ OldChunkRowsKept]_vars

\* C13: a failure callback sets the file's status to failed (when its update goes
\* through) and changes nothing else: no chunk row is inserted or changed even if the
\* payload carries chunks, and the title and the other columns of the file are left as
\* they were even if the payload carries a title.
C13_FailureCallbackOnlySetsFailed ==
    [][\A f \in DOMAIN knowledge_files, title \in CallbackTitles,
          payloadChunks \in CallbackDocuments, updOk, insOk \in BOOLEAN :
          Callback(TRUE, f, TRUE, title, payloadChunks, updOk, insOk)
              => /\ updOk => knowledge_files'[f].processing_status = "failed"
                 /\ knowledge_files' =
                        [knowledge_files EXCEPT
                            ![f].processing_status = knowledge_files'[f].processing_status]
                 /\ file_chunks' = file_chunks
                 /\ storage' = storage]_vars

\* a failure callback was handled for the uploaded file: it is failed, keeps its title
\* and has no chunk
C13_FailureCallbackHandled ==
    /\ lastCall.op = "callback"
    /\ lastCall.ids = <<fileId>>
    /\ knowledge_files[fileId].processing_status = "failed"
    /\ knowledge_files[fileId].title = "report.pdf"
    /\ file_chunks = <<>>

\* C14: when the bulk chunk insertion of a success callback fails, the status update is
\* not rolled back: the file is completed, no chunk row was added, and the handler
\* still answers 200.
C14_InsertFailureKeepsCompleted ==
    [][\A f \in DOMAIN knowledge_files, title \in CallbackTitles,
          payloadChunks \in CallbackDocuments :
          (Len(payloadChunks) > 0 /\ Callback(TRUE, f, FALSE, title, payloadChunks, TRUE, FALSE))
              => /\ knowledge_files'[f].processing_status = "completed"
                 /\ file_chunks' = file_chunks
                 /\ lastCall'.ok
                 /\ lastCall'.status = 200]_vars

\* a success callback whose chunk insertion failed was handled: the file is completed
\* and has no chunk
C14_CompletedWithoutChunks ==
    /\ lastCall.op = "callback"
    /\ lastCall.faults = {"insert"}
    /\ knowledge_files[fileId].processing_status = "completed"
    /\ ChunkIdsOf(file_chunks, fileId) = {}

\* the rows of file f in a table that carry the k-th chunk index
RowsAtIndex(table, f, k) ==
    {i \in ChunkIdsOf(table, f) : table[i].chunk_index = IndexUnit * (k - 1)}

\* the rows of file f are exactly those one delivery of the payload leaves, and the
\* handler's last request was that delivery
DeliveredOnce(f, payloadChunks) ==
    /\ lastCall.op = "callback"
    /\ lastCall.ids = <<f>>
    /\ lastCall.inserted = ChunkIdsOf(file_chunks, f)
    /\ knowledge_files[f].processing_status = "completed"
    /\ Cardinality(ChunkIdsOf(file_chunks, f)) = Len(payloadChunks)
    /\ \A k \in 1..Len(payloadChunks) :
           \E i \in RowsAtIndex(file_chunks, f, k) :
               file_chunks[i].content = StoredContent(payloadChunks[k])

\* C15: delivering the same success payload with n chunks a second time leaves the file
\* completed and leaves 2n chunk rows for it, each chunk_index of 0..n-1 occurring
\* exactly twice.
C15_SecondDeliveryDuplicatesChunks ==
    [][\A f \in DOMAIN knowledge_files, title \in CallbackTitles,
          payloadChunks \in CallbackDocuments :
          (/\ DeliveredOnce(f, payloadChunks)
           /\ Callback(TRUE, f, FALSE, title, payloadChunks, TRUE, TRUE))
              => /\ knowledge_files'[f].processing_status = "completed"
                 /\ Cardinality(ChunkIdsOf(file_chunks', f)) = 2 * Len(payloadChunks)
                 /\ \A k \in 1..Len(payloadChunks) :
                        Cardinality(RowsAtIndex(file_chunks', f, k)) = 2]_vars

\* a payload of two chunks was delivered twice: four rows, each index held by two rows
\* with the same content
C15_TwoChunksDeliveredTwice ==
    /\ knowledge_files[fileId].processing_status = "completed"
    /\ Cardinality(ChunkIdsOf(file_chunks, fileId)) = 4
    /\ \A k \in 1..2 :
           /\ Cardinality(RowsAtIndex(file_chunks, fileId, k)) = 2
           /\ \A i \in RowsAtIndex(file_chunks, fileId, k) :
                  file_chunks[i].content = DocChunk(k).content

\* C16: the handler answers 400 when file_id is missing, making no datastore write;
\* 500 when the update of the file's status fails, in the failure branch as well as in
\* the success branch; 200 in every other case.
C16_CallbackResponseCodes ==
    [][\A has_file_id, failed, updOk, insOk \in BOOLEAN, f \in CallbackFileIds,
          title \in CallbackTitles, payloadChunks \in CallbackDocuments :
          Callback(has_file_id, f, failed, title, payloadChunks, updOk, insOk)
              => /\ lastCall'.status =
                        (IF ~has_file_id THEN 400 ELSE IF ~updOk THEN 500 ELSE 200)
                 /\ ~has_file_id =>
                        /\ knowledge_files' = knowledge_files
                        /\ file_chunks' = file_chunks]_vars

----------------------------------------------------------------------------
(* Claims about chunk updates, edits and file deletion *)

\* the text is empty or holds nothing but blanks and line breaks
OnlyWhitespace(text) == \A k \in 1..Len(text) : text[k] \in {" ", "\n"}

\* every row of the table other than those of ids is as it was
OtherChunkRowsKept(ids) ==
    /\ DOMAIN file_chunks' \ ids = DOMAIN file_chunks \ ids
    /\ \A i \in DOMAIN file_chunks \ ids : file_chunks'[i] = file_chunks[i]

\* C17: an update whose content is empty or only whitespace is refused and leaves the
\* stored content and updated_at of the chunk unchanged; an accepted update replaces the
\* content of exactly that chunk and advances its updated_at
C17_UpdateRejectsEmptyContent ==
    [][\A chunkId \in AllChunkIds, editContent \in EditTexts, ok \in BOOLEAN :
          /\ OnlyWhitespace(editContent) =>
                 /\ ~ UpdateChunk(chunkId, editContent, ok)
                 /\ ~ ENABLED UpdateChunk(chunkId, editContent, ok)
          /\ UpdateChunk(chunkId, editContent, ok) /\ lastCall'.ok =>
                 /\ chunkId \in DOMAIN file_chunks'
                 /\ ~ OnlyWhitespace(file_chunks'[chunkId].content)
                 /\ file_chunks'[chunkId].content = Trim(editContent)
                 /\ file_chunks'[chunkId].updated_at > file_chunks[chunkId].updated_at
                 /\ file_chunks'[chunkId].file_id = file_chunks[chunkId].file_id
                 /\ file_chunks'[chunkId].chunk_index = file_chunks[chunkId].chunk_index
                 /\ OtherChunkRowsKept({chunkId})
          /\ UpdateChunk(chunkId, editContent, ok) /\ ~ lastCall'.ok =>
                 file_chunks' = file_chunks]_vars

\* an update typed with a leading blank was accepted and stored trimmed, its updated_at advanced
C17_ChunkUpdatedTrimmed ==
    /\ lastCall.op = "update"
    /\ lastCall.ok
    /\ \E i \in DOMAIN file_chunks :
           /\ lastCall.ids = <<i>>
           /\ file_chunks[i].content = <<"Y">>
           /\ file_chunks[i].updated_at > CreatedAt

\* the rows an edit wrote: the surviving rows among those it was given and the rows it inserted
TouchedChunks == (Range(lastCall'.ids) \cup lastCall'.inserted) \cap DOMAIN file_chunks'

\* the split point of the step lies within the content of the chunk being split
SplitWithinContent ==
    \A i \in Range(lastCall'.ids) :
        HasId(chunks, i) => lastCall'.point <= Len(Find(chunks, i).content)

\* C18: after an update, a split at an offset from 0 to the content length, or a merge
\* that succeeded with no request failed, no chunk touched or created has empty content
C18_EditsLeaveNoEmptyChunk ==
    [][(\/ SucceededFaultless("update")
        \/ SucceededFaultless("merge")
        \/ (SucceededFaultless("split") /\ SplitWithinContent))
       => \A i \in TouchedChunks : file_chunks'[i].content # <<>>]_vars

\* C19: after deleteFile reports success for a file, its record is gone, no chunk row
\* references it and no blob remains at its stored path; a deleteFile that reports
\* failure has removed neither the record nor the blob
C19_DeleteFileAllOrNothing ==
    [][\A f \in DOMAIN knowledge_files :
          opCount' = opCount + 1 /\ lastCall'.op = "deleteFile" /\ lastCall'.ids = <<f>> =>
              IF lastCall'.ok
              THEN /\ f \notin DOMAIN knowledge_files'
                   /\ ChunkIdsOf(file_chunks', f) = {}
                   /\ knowledge_files[f].file_path \notin storage'
              ELSE /\ knowledge_files' = knowledge_files
                   /\ storage' = storage]_vars

\* C20: a registry or chunk-editor operation issued by the signed-in user against a file
\* or chunk of another user is rejected and changes no file row, no chunk row and no blob
C20_ForeignOperationsRejected ==
    [][(\A f \in DOMAIN knowledge_files : knowledge_files[f].user_id # Owner) =>
          /\ opCount' = opCount + 1 /\ requests' = requests => ~ lastCall'.ok
          /\ knowledge_files' = knowledge_files
          /\ file_chunks' = file_chunks
          /\ storage' = storage]_vars

----------------------------------------------------------------------------
(* Claims about the file list of the subscribed clients (checked under SpecViews) *)

\* the client shows exactly the user's stored files, each with its stored status and title
ShowsStoredFiles(v) ==
    /\ DOMAIN views[v].files = OwnFiles(knowledge_files)
    /\ \A f \in DOMAIN views[v].files :
           /\ views[v].files[f].processing_status = knowledge_files[f].processing_status
           /\ views[v].files[f].title = knowledge_files[f].title

\* C21: after the changes to the user's file rows have stopped, every subscribed client
\* comes to show, and from then on shows, the stored status and title of each file
C21_ViewsFollowFileRows == <>[](\A v \in Viewers : ShowsStoredFiles(v))

----------------------------------------------------------------------------
(* Claims about uploads, chunk edits under failure and the origin of completed *)

\* C22: every file record whose file_path is set has the path {owner_id}/{file_id}.{ext}
\* of its own owner and id, and a blob is stored at exactly that path
C22_PathIsOwnerAndIdWithBlob ==
    \A f \in DOMAIN knowledge_files :
        knowledge_files[f].file_path # NoPath =>
            /\ knowledge_files[f].file_path.dir = knowledge_files[f].user_id
            /\ knowledge_files[f].file_path.id = f
            /\ knowledge_files[f].file_path \in storage

\* the client's snapshot is what a select of the file's chunks returns now
SnapshotFresh ==
    LET ids == ChunkIdsOf(file_chunks, fileId) \cap OwnChunks(file_chunks, knowledge_files)
    IN  /\ Len(chunks) = Cardinality(ids)
        /\ {chunks[k] : k \in 1..Len(chunks)} = {ClientRow(i) : i \in ids}
        /\ \A k \in 1..(Len(chunks) - 1) : chunks[k].chunk_index <= chunks[k + 1].chunk_index

\* the merge just made was computed from a fresh snapshot of stored chunks of one file,
\* its content update went through and its delete failed
MergeWithFailedDelete ==
    /\ opCount' = opCount + 1
    /\ lastCall'.op = "merge"
    /\ lastCall'.faults = {"delete"}
    /\ SnapshotFresh
    /\ Cardinality(MergeSet) >= 2
    /\ MergeSet \subseteq DOMAIN file_chunks

\* C23: when the deletion of the other chunks fails after the content update of the
\* first chunk succeeded, the merge reports an error, the lowest-keyed chunk holds the
\* merged content, and every other chunk of the set is still there with its content
C23_FailedDeleteLeavesMergedAndOthers ==
    [][MergeWithFailedDelete =>
          /\ ~ lastCall'.ok
          /\ DOMAIN file_chunks' = DOMAIN file_chunks
          /\ \E low \in LowestOf(file_chunks, MergeSet) :
                 /\ \E q \in AscendingOrders(file_chunks, MergeSet) :
                        file_chunks'[low].content = JoinedContent(file_chunks, q)
                 /\ \A i \in DOMAIN file_chunks \ {low} : file_chunks'[i] = file_chunks[i]]_vars

\* a merge of two chunks failed at its delete: the first holds both texts, the second is kept
C23_MergedButNotDeleted ==
    /\ lastCall.op = "merge"
    /\ ~ lastCall.ok
    /\ lastCall.faults = {"delete"}
    /\ \E i, j \in DOMAIN file_chunks :
           /\ Range(lastCall.ids) = {i, j}
           /\ i # j
           /\ file_chunks[i].content = Join(<<<<"A", "B">>, file_chunks[j].content>>, Separator)

\* C24: when each operation is issued only after the re-fetch that follows the previous
\* one has settled, every split and merge computes its result from a snapshot equal to
\* the stored chunk rows of the file in ascending key order
C24_SplitAndMergeReadFreshSnapshot ==
    [][/\ opCount' = opCount + 1
       /\ lastCall'.op \in {"split", "merge"}
       /\ lastCall' # lastCall
       /\ ~ invalidated
       => SnapshotFresh]_vars

\* the blobs stored for file f, and the processing invocations made for it
BlobsOf(f) == {path \in storage : path.id = f}
InvocationsOf(f) == {e \in webhookLog : e.file = f}

\* C25: for each file handed once to the upload dialog the blob is written at most once
\* and document processing is invoked at most once
C25_OneBlobOneInvocation ==
    \A f \in KnownFileIds :
        /\ Cardinality(BlobsOf(f)) <= 1
        /\ Cardinality(InvocationsOf(f)) <= 1

\* a split of a stored chunk, computed from a fresh snapshot
SplitFromFreshSnapshot ==
    /\ opCount' = opCount + 1
    /\ lastCall'.op = "split"
    /\ SnapshotFresh
    /\ lastCall'.ids[1] \in DOMAIN file_chunks

\* the text held after a split by the original chunk followed by the chunk it inserted
TextAfterSplit ==
    LET c == lastCall'.ids[1]
        kept == IF c \in DOMAIN file_chunks' THEN file_chunks'[c].content ELSE <<>>
    IN  IF lastCall'.inserted = {} THEN kept
        ELSE kept \o file_chunks'[CHOOSE n \in lastCall'.inserted : TRUE].content

\* C26: whatever the outcome of the two writes of a split, the chunks of the file still
\* hold every character of the original chunk's content in order, and an error is
\* reported whenever either write failed
C26_SplitNeverLosesText ==
    [][SplitFromFreshSnapshot =>
          /\ TextAfterSplit = file_chunks[lastCall'.ids[1]].content
          /\ (lastCall'.faults # {} => ~ lastCall'.ok)]_vars

\* a merge of two or more stored chunks, computed from a fresh snapshot
MergeFromFreshSnapshot ==
    /\ opCount' = opCount + 1
    /\ lastCall'.op = "merge"
    /\ SnapshotFresh
    /\ Cardinality(MergeSet) >= 2
    /\ MergeSet \subseteq DOMAIN file_chunks

\* C27: a merge deletes no chunk of its set unless the merged content is stored in the
\* surviving chunk; when the content update of the first chunk fails, no other chunk
\* is deleted
C27_MergeNeverLosesText ==
    [][MergeFromFreshSnapshot =>
          /\ (DOMAIN file_chunks' # DOMAIN file_chunks =>
                  \E low \in LowestOf(file_chunks, MergeSet) :
                      /\ low \in DOMAIN file_chunks'
                      /\ \E q \in AscendingOrders(file_chunks, MergeSet) :
                             file_chunks'[low].content = JoinedContent(file_chunks, q))
          /\ ("update" \in lastCall'.faults => DOMAIN file_chunks' = DOMAIN file_chunks)]_vars

\* file f is completed after this step and was not before it
BecomesCompleted(f) ==
    /\ knowledge_files'[f].processing_status = CompletedStatus
    /\ f \in DOMAIN knowledge_files => knowledge_files[f].processing_status # CompletedStatus

\* C28: a file's status becomes completed only in a step in which the callback handler
\* answered a callback for that file; no client-side upload path writes completed
C28_CompletedOnlyByCallback ==
    [][\A f \in DOMAIN knowledge_files' :
           BecomesCompleted(f) =>
               /\ opCount' = opCount + 1
               /\ lastCall'.op = "callback"
               /\ lastCall'.ids = <<f>>
               /\ lastCall'.status = 200]_vars

\* C29: whenever uploadFile reports an error to its caller, no file record created by
\* that call remains in the datastore
C29_RejectedUploadLeavesNoRecord ==
    \A i \in DOMAIN uploads :
        uploads[i].pc = "rejected" => uploads[i].rec \notin DOMAIN knowledge_files

\* the client shows for each stored file it lists the number of chunk rows stored for it
ShowsStoredCounts(v) ==
    \A f \in DOMAIN views[v].files \cap DOMAIN knowledge_files :
        views[v].files[f].chunk_count = Cardinality(ChunkIdsOf(file_chunks, f))

\* C30: after a success callback has inserted chunks and after any chunk delete, split
\* or merge, every subscribed client whose files query has not given up comes to show,
\* and from then on shows, a chunk count equal to the chunk rows stored for the file
C30_ViewsFollowChunkCounts ==
    <>[](\A v \in Viewers : views[v].query = "error" \/ ShowsStoredCounts(v))

====
